---- MODULE Spec2Model ----
(***************************************************************************)
(* Model of BoxStrategy (src/box_strategy.py): the resumable paginated     *)
(* scan of a Box folder.  One BoxStrategy instance serves successive       *)
(* scan() invocations for one data source and one scan order; the caller   *)
(* holds the scan order in memory and the ScanOrderAdapter holds the       *)
(* cursor in durable storage.  Files of the remote folder are the numbers  *)
(* 1..total_files in the order the search endpoint lists them; a           *)
(* normalized record is identified with its file.                          *)
(***************************************************************************)
EXTENDS Integers, Sequences, FiniteSets, TLC

\* ---------------------------------------------------------------- bounds
\* Files in the remote folder.
MaxFiles == 5
\* Files of the folder whose raw item fails normalization, and the size of
\* the folders that hold such a file.
MaxBadFiles == 1
MaxBadFolder == 3
\* BoxStrategy.MAX_BATCH_SIZE, scaled down from 300 so that a sweep of a
\* small folder takes several batches.
MAX_BATCH_SIZE == 2
\* Caps on the instance counters api_calls_count / api_errors_count: one
\* instance serves scan() only while below them (then a new instance is made).
MaxApiCalls == 2
MaxApiErrors == 2
\* Length of the scripts of attempt outcomes the retry executor is run on.
MaxScriptLen == 4
\* Ancestor entries in a path collection.
MaxPathLen == 3

\* -------------------------------------------------------------- constants
MAX_RETRIES == 3
\* The base delay of the backoff (inherited from BaseScannerStrategy), as
\* the unit in which delays are counted.
RETRY_DELAY == 1
\* A response without a total_count field.
NoTotal == -1
\* current_offset holding None.
NoOffset == -1

VARIABLES
    total_files,   \* number of files in the (static) remote folder
    bad_files,     \* files whose raw item fails normalization
    cursor_blob,   \* the cursor blob the scan order was first handed over with
    last_completed, \* the data source's last completed scan timestamp, if any
    request,       \* a request run through the retry executor on its own
    page_walk,     \* a page handed to both walkers on their own
    path_call,     \* a path collection handed to _build_folder_path on its own
    strategy,      \* the BoxStrategy instance's fields
    scan_order,    \* the caller's in-memory scan order
    stored_cursor, \* scan_metadata.cursor as held in durable storage
    outcome,       \* what the last scan() invocation returned (or that it raised)
    trace,         \* what happened inside the last scan() invocation
    hist           \* records delivered since the current sweep began

vars == <<total_files, bad_files, cursor_blob, last_completed, request,
          page_walk, path_call,
          strategy, scan_order, stored_cursor,
          outcome, trace, hist>>

Min(a, b) == IF a < b THEN a ELSE b

\* --------------------------------------------------------------- cursors
\* A cursor blob, by its shape: no cursor key ("absent"), an empty map
\* ("empty"), a map without current_offset ("no_offset"), a map holding
\* current_offset ("offset"), the value null ("null"), or another value that
\* is not a map ("not_a_map", such as a text).  current_offset is the held
\* value, NoOffset when the map holds null.
CursorShapes == {"absent", "empty", "no_offset", "offset", "null", "not_a_map"}
NoCursor == [shape |-> "absent", current_offset |-> 0]
Cursor(k) == [shape |-> "offset", current_offset |-> k]

\* if cursor_data: ...
truthy(cursor_data) == cursor_data.shape \in {"no_offset", "offset", "not_a_map"}

\* cursor_data.get raises when cursor_data is not a map.
restore_raises(cursor_data) == cursor_data.shape \in {"null", "not_a_map"}

\* cursor_data.get("current_offset", 0)
restore_scan_state(cursor_data) ==
    IF cursor_data.shape = "offset" THEN cursor_data.current_offset ELSE 0

\* ------------------------------------------------------ the retry executor
\* What one attempt of the request ends in.
AttemptOutcomes ==
    {"ok", "s429", "s500", "s404", "s403", "s400", "box_error", "unexpected"}

\* The server's answer to attempt i (1-based); past the script's end it
\* keeps answering as it last did.
At(script, i) == IF i <= Len(script) THEN script[i] ELSE script[Len(script)]

\* Mutant: not-found is retried like a rate limit.
Retryable_or_not_found(o) == o \in {"s429", "s500", "s404"}

\* status_code == 429 or 500 <= status_code < 600
Retryable(o) == o \in {"s429", "s500"}

\* Mutant: the exponent is the retry number.
backoff_delay_late(retry) == RETRY_DELAY * 2 ^ retry

\* delay = self.RETRY_DELAY * (2 ** (retry - 1))
backoff_delay(retry) == RETRY_DELAY * 2 ^ (retry - 1)
Swallowed(o) == o \in {"box_error", "unexpected"}

RECURSIVE execute_attempts(_, _, _)
execute_attempts(script, retry, delays) ==
    LET o == At(script, retry + 1)
        slept == IF retry > 0 THEN Append(delays, backoff_delay(retry))
                 ELSE delays
    IN  IF o = "ok"
        THEN [raised |-> FALSE, error |-> "none", attempts |-> retry + 1,
              delays |-> slept]
        ELSE IF (Retryable(o) \/ Swallowed(o)) /\ retry < MAX_RETRIES
        THEN execute_attempts(script, retry + 1, slept)
        ELSE [raised |-> TRUE, error |-> o, attempts |-> retry + 1,
              delays |-> slept]

\* for retry in range(MAX_RETRIES + 1): ...; delays are in units of RETRY_DELAY
execute_with_retry(script) == execute_attempts(script, 0, <<>>)

NoExecution == [raised |-> FALSE, error |-> "none", attempts |-> 0, delays |-> <<>>]

\* ------------------------------------------------------ the search endpoint
\* The page the endpoint returns for {limit, offset}: the window of the
\* folder's listing.  An endpoint that ignores the limit returns one entry
\* more (overlong); one that omits total_count reports NoTotal.  A request
\* whose offset is None carries no offset and is answered from the start.
\* A response without a body ("none") or whose body has no entries field
\* ("no_entries") yields no entries.
make_request(offset, limit, api) ==
    LET from == IF offset = NoOffset THEN 0 ELSE offset
        last == IF api.body # "json" THEN from
                ELSE Min(from + limit + (IF api.overlong THEN 1 ELSE 0),
                         total_files)
    IN  [entries |-> [i \in 1..(IF last > from THEN last - from ELSE 0)
                        |-> from + i],
         total_count |-> IF api.no_total THEN NoTotal ELSE total_files]

\* -------------------------------------------------------- the folder path
\* An ancestor entry of an item's path_collection.
Root == [id |-> "0", name |-> "All Files"]
PathEntries == [id : {"0", "5"}, name : {"All Files", "Reports", ""}]

\* A path_collection: missing, or a map holding entries (possibly none).
NoPath == [present |-> FALSE, entries |-> <<>>]
PathCollection(entries) == [present |-> TRUE, entries |-> entries]

\* if folder_id == "0" and folder_name == "All Files": continue
skipped(entry, position) == entry.id = "0" /\ entry.name = "All Files"

\* The loop over the entries: the names that are kept, in order.
RECURSIVE folder_names(_, _)
folder_names(entries, i) ==
    IF i > Len(entries) THEN <<>>
    ELSE IF skipped(entries[i], i) \/ entries[i].name = ""
    THEN folder_names(entries, i + 1)
    ELSE <<entries[i].name>> \o folder_names(entries, i + 1)

\* "/".join(names), as the sequence of its pieces.
RECURSIVE join(_)
join(names) ==
    IF Len(names) = 0 THEN <<>>
    ELSE IF Len(names) = 1 THEN names
    ELSE <<names[1], "/">> \o join(Tail(names))

\* _build_folder_path: the path as the sequence of its pieces.
build_folder_path(path_collection) ==
    IF ~path_collection.present \/ path_collection.entries = <<>>
    THEN <<"/">>
    ELSE LET names == folder_names(path_collection.entries, 1)
         IN  IF names = <<>> THEN <<"/">> ELSE <<"/">> \o join(names)

\* -------------------------------------------------------------- the walker
\* The loop over the page's items: stop (broke) before an item once
\* max_files records are built; an item that fails normalization is skipped.
RECURSIVE process_items(_, _, _, _, _)
process_items(items, i, files, errors, max_files) ==
    IF i > Len(items)
    THEN [files |-> files, errors |-> errors, broke |-> FALSE]
    ELSE IF Len(files) >= max_files
    THEN [files |-> files, errors |-> errors, broke |-> TRUE]
    ELSE IF items[i] \in bad_files
    THEN process_items(items, i + 1, files, errors + 1, max_files)
    ELSE process_items(items, i + 1, Append(files, items[i]), errors, max_files)

\* Mutant: the boundary page still reports more.
has_more_full_inclusive(broke, offset, n_items, n_files, total_count) ==
    broke \/ offset + n_items <= total_count

\* if not has_more and offset + len(items) < total_count: has_more = True
has_more_full(broke, offset, n_items, n_files, total_count) ==
    broke \/ offset + n_items < total_count

\* has_more = offset + len(file_metadata_list) < total_count
has_more_incremental(broke, offset, n_items, n_files, total_count) ==
    offset + n_files < total_count

\* Mutant: the delay comes after the request.
page_request_then_delay(offset, max_files, call) ==
    <<[op |-> "GET search", offset |-> offset, limit |-> max_files,
       attempts |-> call.attempts],
      [op |-> "sleep", offset |-> 0, limit |-> 0, attempts |-> 0]>>

\* time.sleep(self.RATE_LIMIT_DELAY), then the one search request with
\* "limit": max_files, "offset": offset through _execute_with_retry.
page_request(offset, max_files, call) ==
    <<[op |-> "sleep", offset |-> 0, limit |-> 0, attempts |-> 0],
      [op |-> "GET search", offset |-> offset, limit |-> max_files,
       attempts |-> call.attempts]>>

NoWalk ==
    [raised |-> FALSE, files |-> <<>>, has_more |-> FALSE, requests |-> 0,
     events |-> <<>>, attempts |-> 0, page_len |-> 0, total_count |-> NoTotal, item_errors |-> 0,
     modified_since |-> "none", consulted |-> FALSE,
     self |-> [current_offset |-> 0, box_client |-> FALSE,
               api_calls_count |-> 0, api_errors_count |-> 0]]

\* _scan_folder: one page request, then the items of the page.
scan_folder(self, offset, max_files, api) ==
    LET call == execute_with_retry(api.script)
        called == [self EXCEPT !.api_calls_count = @ + 1]
        resp == make_request(offset, max_files, api)
        p == process_items(resp.entries, 1, <<>>, 0, max_files)
        base == [NoWalk EXCEPT !.requests = 1, !.attempts = call.attempts,
                               !.events = page_request(offset, max_files, call)]
    IN  IF call.raised
        THEN [base EXCEPT !.raised = TRUE,
                          !.self = [self EXCEPT !.api_errors_count = @ + 1]]
        ELSE IF resp.entries = <<>>
        THEN [base EXCEPT !.self = called]
        ELSE IF ~p.broke /\ (resp.total_count = NoTotal \/ offset = NoOffset)
        THEN \* offset + len(items) < total_count raises when either is None
             [base EXCEPT !.raised = TRUE,
                          !.page_len = Len(resp.entries),
                          !.self = [called EXCEPT !.api_errors_count = @ + 1]]
        ELSE [base EXCEPT !.files = p.files,
                          !.has_more = has_more_full(p.broke, offset,
                                          Len(resp.entries), Len(p.files),
                                          resp.total_count),
                          !.page_len = Len(resp.entries),
                          !.total_count = resp.total_count,
                          !.item_errors = p.errors,
                          !.self = called]

\* _scan_folder_incremental: the same request with the time filter.
scan_folder_incremental(self, offset, max_files, api) ==
    LET call == execute_with_retry(api.script)
        called == [self EXCEPT !.api_calls_count = @ + 1]
        resp == make_request(offset, max_files, api)
        p == process_items(resp.entries, 1, <<>>, 0, max_files)
        total == IF resp.total_count = NoTotal THEN Len(resp.entries)
                 ELSE resp.total_count
        base == [NoWalk EXCEPT !.requests = 1, !.attempts = call.attempts,
                               !.events = page_request(offset, max_files, call)]
    IN  IF call.raised
        THEN [base EXCEPT !.raised = TRUE, !.self = self]
        ELSE IF resp.entries = <<>>
        THEN [base EXCEPT !.self = called]
        ELSE IF offset = NoOffset
        THEN \* offset + len(file_metadata_list) raises when offset is None
             [base EXCEPT !.raised = TRUE,
                          !.page_len = Len(resp.entries),
                          !.self = [called EXCEPT !.api_errors_count = @ + p.errors]]
        ELSE [base EXCEPT !.files = p.files,
                          !.has_more = has_more_incremental(p.broke, offset,
                                          Len(resp.entries), Len(p.files), total),
                          !.page_len = Len(resp.entries),
                          !.total_count = total,
                          !.item_errors = p.errors,
                          !.self = [called EXCEPT !.api_errors_count = @ + p.errors]]

\* ------------------------------------------------------------ scan results
\* create_error_result: no files, not completed, no credentials.
create_error_result(self, error_msg) ==
    [files |-> <<>>, is_completed |-> FALSE, files_count |-> 0,
     scan_completed_at |-> FALSE,
     api_calls_made |-> self.api_calls_count,
     api_errors_encountered |-> self.api_errors_count,
     updated_credentials |-> FALSE, error |-> error_msg]

NoResult == create_error_result(NoWalk.self, "none")

\* Mutant: the completion flag repeats has_more.
batch_result_has_more(self, files, has_more) ==
    [files |-> files, is_completed |-> has_more, files_count |-> Len(files),
     scan_completed_at |-> TRUE,
     api_calls_made |-> self.api_calls_count,
     api_errors_encountered |-> self.api_errors_count,
     updated_credentials |-> FALSE, error |-> "None"]

\* The result a successful batch assembles.
batch_result(self, files, has_more) ==
    [files |-> files, is_completed |-> ~has_more, files_count |-> Len(files),
     scan_completed_at |-> TRUE,
     api_calls_made |-> self.api_calls_count,
     api_errors_encountered |-> self.api_errors_count,
     updated_credentials |-> FALSE, error |-> "None"]

\* _save_scan_state: the cursor is written into the caller's scan order, then
\* handed to ScanOrderAdapter.update_scan_metadata, which stores it or raises.
save_scan_state(w, stored) ==
    LET cursor_data == Cursor(w.self.current_offset)
    IN  [w |-> [w EXCEPT !.mem = cursor_data,
                         !.db = IF stored THEN cursor_data ELSE @],
         raised |-> ~stored]

\* Mutant: the handler starts the sweep over before it saves.
on_error_reset(w, error_msg, stored) ==
    IF w.self.box_client
    THEN LET sv == save_scan_state([w EXCEPT !.self.current_offset = 0], stored)
         IN  [w |-> sv.w, raised |-> sv.raised,
              result |-> IF sv.raised THEN NoResult
                         ELSE create_error_result(sv.w.self, error_msg)]
    ELSE [w |-> w, raised |-> FALSE,
          result |-> create_error_result(w.self, error_msg)]

\* An except-handler: if self.box_client: self._save_scan_state(scan_order);
\* return self.create_error_result(...).  A save that raises leaves the handler.
on_error(w, error_msg, stored) ==
    IF w.self.box_client
    THEN LET sv == save_scan_state(w, stored)
         IN  [w |-> sv.w, raised |-> sv.raised,
              result |-> IF sv.raised THEN NoResult
                         ELSE create_error_result(sv.w.self, error_msg)]
    ELSE [w |-> w, raised |-> FALSE,
          result |-> create_error_result(w.self, error_msg)]

\* Mutant: the offset is not reset when the sweep completes.
advance_no_reset(offset, n, has_more) == offset + n

\* if has_more: self.current_offset += len(files) else: self.current_offset = 0
advance(offset, n, has_more) == IF has_more THEN offset + n ELSE 0

\* What a scan method hands back, with the walk it made (for the trace).
with_walk(r, walk) ==
    [w |-> r.w, raised |-> r.raised, result |-> r.result, walk |-> walk]

\* self.current_offset += len(files) raises when the offset is None.
advance_raises(offset, has_more) == has_more /\ offset = NoOffset

\* The body shared by _full_scan and _incremental_scan, given the walk.
batch(w, walk, error_msg, inp) ==
    LET offset == restore_scan_state(w.mem)
        walked == [w EXCEPT !.self = walk.self]
        moved == [walked EXCEPT !.self.current_offset =
                      advance(offset, Len(walk.files), walk.has_more)]
        sv == save_scan_state(moved, inp.persist.body)
    IN  IF restore_raises(w.mem)
        THEN with_walk(on_error(w, error_msg, inp.persist.handler), walk)
        ELSE IF walk.raised \/ advance_raises(offset, walk.has_more)
        THEN with_walk(on_error([walked EXCEPT !.self.current_offset = offset],
                                error_msg, inp.persist.handler), walk)
        ELSE IF sv.raised \/ ~inp.assembly_ok
        THEN with_walk(on_error(sv.w, error_msg, inp.persist.handler), walk)
        ELSE [w |-> sv.w, raised |-> FALSE,
              result |-> batch_result(sv.w.self, walk.files, walk.has_more),
              walk |-> walk]

full_walk(w, inp) ==
    scan_folder(w.self, restore_scan_state(w.mem), MAX_BATCH_SIZE, inp.api)

incremental_walk(w, inp) ==
    scan_folder_incremental(w.self, restore_scan_state(w.mem), MAX_BATCH_SIZE,
                            inp.api)

full_scan(w, inp) ==
    batch(w, IF restore_raises(w.mem) THEN NoWalk ELSE full_walk(w, inp),
          "Error in full scan of Box", inp)

\* Mutant: the stored timestamp is looked up first and preferred.
reference_timestamp_stored_first(scanned_from, stored, lookup_ok) ==
    IF ~lookup_ok THEN [raised |-> TRUE, scan_from |-> "none", consulted |-> TRUE]
    ELSE IF stored # "none"
    THEN [raised |-> FALSE, scan_from |-> "last_completed", consulted |-> TRUE]
    ELSE IF scanned_from # "none"
    THEN [raised |-> FALSE, scan_from |-> "scanned_from", consulted |-> TRUE]
    ELSE [raised |-> FALSE, scan_from |-> "epoch", consulted |-> TRUE]

\* The reference timestamp of an incremental scan: scan_order.scanned_from,
\* else ScanOrderAdapter.get_last_completed_scan_timestamp (which answers or
\* raises), else "1970-01-01T00:00:00Z".
reference_timestamp(scanned_from, stored, lookup_ok) ==
    IF scanned_from # "none"
    THEN [raised |-> FALSE, scan_from |-> "scanned_from", consulted |-> FALSE]
    ELSE IF ~lookup_ok
    THEN [raised |-> TRUE, scan_from |-> "none", consulted |-> TRUE]
    ELSE IF stored # "none"
    THEN [raised |-> FALSE, scan_from |-> "last_completed", consulted |-> TRUE]
    ELSE [raised |-> FALSE, scan_from |-> "epoch", consulted |-> TRUE]

incremental_scan(w, inp) ==
    LET ref == reference_timestamp(scan_order.scanned_from, last_completed,
                                   inp.lookup_ok)
        walk == IF restore_raises(w.mem) THEN NoWalk ELSE incremental_walk(w, inp)
        seen == [walk EXCEPT !.modified_since =
                     IF walk.requests > 0 THEN ref.scan_from ELSE "none",
                             !.consulted = ref.consulted]
    IN  IF ref.raised
        THEN \* the lookup is made before the try block: it leaves the method
             [w |-> w, raised |-> TRUE, result |-> NoResult,
              walk |-> [NoWalk EXCEPT !.consulted = TRUE]]
        ELSE batch(w, seen, "Error in incremental scan of Box", inp)

\* ----------------------------------------------------------- authentication
AuthTypes == {"empty", "unsupported", "supported"}
\* What auth_handler.authenticate returns: nothing, a result without a client,
\* a client, a client with refreshed credentials; or it raises.
HandlerOutcomes == {"none", "no_client", "client", "refreshed", "raises"}

\* _authenticate
authenticate(auth_type, handler) ==
    IF auth_type = "empty" THEN "none"
    ELSE IF auth_type = "unsupported" THEN "none"
    ELSE handler

\* Mutant: the check for a missing client is dropped.
client_missing_unchecked(auth_result) == FALSE

\* if not self.box_client: return create_error_result(...)
client_missing(auth_result) == auth_result = "no_client"

\* Whether scan() gets as far as the scan method, and so the page request.
reaches_walk(auth_result) ==
    auth_result \notin {"raises", "none"} /\ ~client_missing(auth_result)

\* ------------------------------------------------------------------- scan()
scan(w, scan_type, inp) ==
    LET auth_result == authenticate(inp.auth_type, inp.handler)
        client == [w EXCEPT !.self.box_client = (auth_result # "no_client")]
        \* if cursor_data: _restore_scan_state else: _initialize_scan_state
        ready == [client EXCEPT !.self.current_offset =
                     IF truthy(w.mem) THEN restore_scan_state(w.mem) ELSE 0]
        r == IF scan_type = "incremental" THEN incremental_scan(ready, inp)
             ELSE full_scan(ready, inp)
    IN  IF auth_result = "raises"
        THEN with_walk(on_error(w, "Error scanning Box", inp.persist.outer),
                       NoWalk)
        ELSE IF auth_result = "none"
        THEN [w |-> w, raised |-> FALSE,
              result |-> create_error_result(w.self,
                             "Failed to authenticate with Box"),
              walk |-> NoWalk]
        ELSE IF ~reaches_walk(auth_result)
        THEN [w |-> client, raised |-> FALSE,
              result |-> create_error_result(client.self,
                             "Failed to initialize Box client"),
              walk |-> NoWalk]
        ELSE IF truthy(w.mem) /\ restore_raises(w.mem)
        THEN \* _restore_scan_state raises in scan()'s own try block
             with_walk(on_error(client, "Error scanning Box", inp.persist.outer),
                       NoWalk)
        ELSE IF r.raised
        THEN with_walk(on_error(r.w, "Error scanning Box", inp.persist.outer),
                       r.walk)
        ELSE [r EXCEPT !.result.updated_credentials =
                  IF auth_result = "refreshed" THEN TRUE ELSE @]

\* ------------------------------------------------------------------ inputs
\* __init__
Strategy0 ==
    [current_offset |-> 0, box_client |-> FALSE, api_calls_count |-> 0,
     api_errors_count |-> 0]

\* What the search endpoint does on each attempt of one request.
ScanScripts ==
    {<<"ok">>, <<"s429", "ok">>, <<"s404">>, <<"s429">>}

DefaultApi ==
    [script |-> <<"ok">>, body |-> "json", overlong |-> FALSE,
     no_total |-> FALSE]

Apis ==
    {[DefaultApi EXCEPT !.script = s] : s \in ScanScripts}
    \cup [script : {<<"ok">>}, body : {"json"}, overlong : BOOLEAN,
          no_total : BOOLEAN]

\* Responses without a body or without an entries field.
BodilessApis == {[DefaultApi EXCEPT !.body = b] : b \in {"none", "no_entries"}}

\* Whether ScanOrderAdapter.update_scan_metadata stores the cursor (or raises)
\* when called from the scan method's body, from its handler, from scan()'s handler.
AllStored == [body |-> TRUE, handler |-> TRUE, outer |-> TRUE]
Persists == [body : BOOLEAN, handler : BOOLEAN, outer : BOOLEAN]

DefaultInput ==
    [auth_type |-> "supported", handler |-> "client", api |-> DefaultApi,
     persist |-> AllStored, assembly_ok |-> TRUE, lookup_ok |-> TRUE]

\* Inputs that differ only in an outcome the invocation never asks for are
\* the same input: the outcome not asked for is fixed.
Canonical(i) ==
    LET fails == execute_with_retry(i.api.script).raised
        in_handler == fails \/ ~i.persist.body \/ ~i.assembly_ok
    IN  /\ fails => i.persist.body /\ i.assembly_ok
        /\ ~i.persist.body => i.assembly_ok
        /\ ~in_handler => i.persist.handler
        /\ (~in_handler \/ i.persist.handler) => i.persist.outer

Inputs ==
    {[DefaultInput EXCEPT !.auth_type = t, !.handler = "none"] :
        t \in {"empty", "unsupported"}}
    \cup {[DefaultInput EXCEPT !.handler = h] : h \in {"none", "no_client"}}
    \cup {[DefaultInput EXCEPT !.handler = "raises", !.persist.outer = o] :
            o \in BOOLEAN}
    \cup {i \in [auth_type : {"supported"}, handler : {"client", "refreshed"},
                  api : Apis, persist : Persists, assembly_ok : BOOLEAN,
                  lookup_ok : {TRUE}] :
            Canonical(i)}

\* scan() keeps nothing of the attempts of its page request: a request
\* answered after a retry leaves what one answered at once leaves, and a
\* request that fails leaves the same whatever it fails with.  One input of
\* each kind stands for them where successive invocations are explored.
DistinctInputs ==
    {i \in Inputs : i.api.script \in {<<"ok">>, <<"s404">>}}

\* An invocation in which nothing fails and the endpoint honours the request.
FailureFree(inp) ==
    /\ inp.auth_type = "supported" /\ inp.handler \in {"client", "refreshed"}
    /\ inp.api = DefaultApi
    /\ inp.persist = AllStored /\ inp.assembly_ok /\ inp.lookup_ok

\* An invocation in which nothing fails but, possibly, what the answered
\* page request returns.
Undisturbed(inp) ==
    FailureFree([inp EXCEPT !.api = DefaultApi]) /\ inp.api.script = <<"ok">>

Range(f) == {f[i] : i \in DOMAIN f}

NoOutcome == [kind |-> "none", result |-> NoResult]

NoTrace ==
    [auth |-> "not_run", start_offset |-> 0,
     end_offset |-> 0, requests |-> 0, modified_since |-> "none",
     consulted |-> FALSE, calls_counted |-> 0,
     errors_counted |-> 0,
     walked |-> FALSE, has_more |-> FALSE, walk_n |-> 0, page_len |-> 0,
     total_count |-> NoTotal, item_errors |-> 0]

NoHist ==
    [emitted |-> 0, delivered |-> {}, clean |-> TRUE, anomaly |-> FALSE,
     undisturbed |-> TRUE, api |-> DefaultApi, events |-> <<>>]

\* No request run on its own.
NoRequest == [script |-> <<"ok">>, state |-> "none", result |-> NoExecution]

\* What a walker hands back: (files, has_more), or it raises.
returned(walk) ==
    [raised |-> walk.raised, files |-> walk.files, has_more |-> walk.has_more]

\* No page handed to the walkers on their own.
NoPageWalk ==
    [offset |-> 0, api |-> DefaultApi, state |-> "none",
     full |-> returned(NoWalk), incremental |-> returned(NoWalk)]

\* No path collection handed to _build_folder_path on its own.
NoPathCall == [path_collection |-> NoPath, state |-> "none", result |-> <<>>]

\* ----------------------------------------------------------------- actions
Init ==
    /\ total_files \in 0..MaxFiles
    /\ bad_files \in {b \in SUBSET (1..total_files) :
                        /\ Cardinality(b) <= MaxBadFiles
                        /\ b # {} => total_files <= MaxBadFolder}
    /\ strategy = Strategy0
    /\ cursor_blob = NoCursor
    /\ last_completed = "none"
    /\ request = NoRequest
    /\ page_walk = NoPageWalk
    /\ path_call = NoPathCall
    /\ scan_order \in [scan_type : {"full", "incremental"}, cursor : {NoCursor},
                        scanned_from : {"given"}]
    /\ stored_cursor = NoCursor
    /\ outcome = NoOutcome
    /\ trace = NoTrace
    /\ hist = NoHist

\* One scan() invocation with the caller's scan order, on input inp.
Invoke(inp) ==
    LET w == [self |-> strategy, mem |-> scan_order.cursor,
              db |-> stored_cursor]
        auth_result == authenticate(inp.auth_type, inp.handler)
    IN  \E r \in {scan(w, scan_order.scan_type, inp)} :
        LET walk == r.walk IN
        /\ strategy' = r.w.self
        /\ scan_order' = [scan_order EXCEPT !.cursor = r.w.mem]
        /\ stored_cursor' = r.w.db
        /\ outcome' = [kind |-> IF r.raised THEN "raised" ELSE "result",
                       result |-> r.result]
        /\ trace' = [auth |-> auth_result,
                     start_offset |-> restore_scan_state(scan_order.cursor),
                     end_offset |-> restore_scan_state(r.w.mem),
                     requests |-> walk.requests,
                     modified_since |-> walk.modified_since,
                     consulted |-> walk.consulted,
                     calls_counted |-> r.w.self.api_calls_count
                                       - strategy.api_calls_count,
                     errors_counted |-> r.w.self.api_errors_count
                                        - strategy.api_errors_count,
                     walked |-> walk.requests > 0 /\ ~walk.raised,
                     has_more |-> walk.has_more,
                     walk_n |-> Len(walk.files),
                     page_len |-> walk.page_len,
                     total_count |-> walk.total_count,
                     item_errors |-> walk.item_errors]
        /\ UNCHANGED <<total_files, bad_files, cursor_blob, last_completed,
                       request, page_walk, path_call>>

\* scan() on an instance that may have served earlier invocations.
Scan ==
    /\ strategy.api_calls_count < MaxApiCalls
    /\ strategy.api_errors_count < MaxApiErrors
    /\ \E inp \in DistinctInputs : Invoke(inp)
    /\ UNCHANGED hist

\* The last invocation returned a result that completed the sweep.
Completed == outcome.kind = "result" /\ outcome.result.is_completed

\* scan() on a new instance with the scan order as persisted, as one batch of
\* a sweep whose deliveries are recorded: a batch after a completed one
\* begins the next sweep.
SweepScan ==
    /\ strategy = Strategy0
    /\ scan_order.cursor = stored_cursor
    /\ hist.emitted <= MaxFiles
    /\ \E inp \in Inputs :
        LET sweep == IF Completed THEN NoHist ELSE hist
        IN  /\ Invoke(inp)
            /\ hist' = [emitted |-> sweep.emitted + Len(outcome'.result.files),
                        delivered |-> sweep.delivered
                                      \cup Range(outcome'.result.files),
                        clean |-> sweep.clean /\ FailureFree(inp),
                        anomaly |-> sweep.anomaly
                                    \/ inp.api.overlong \/ inp.api.no_total,
                        undisturbed |-> sweep.undisturbed,
                        api |-> sweep.api,
                        events |-> sweep.events]

\* The caller loads the scan order again from durable storage.
ReloadScanOrder ==
    /\ scan_order.cursor # stored_cursor
    /\ scan_order' = [scan_order EXCEPT !.cursor = stored_cursor]
    /\ UNCHANGED <<total_files, bad_files, cursor_blob, last_completed, request,
                   page_walk, path_call,
                   strategy, stored_cursor, outcome, trace, hist>>

\* The caller makes a new BoxStrategy instance.
NewStrategy ==
    /\ strategy # Strategy0
    /\ strategy' = Strategy0
    /\ UNCHANGED <<total_files, bad_files, cursor_blob, last_completed, request,
                   page_walk, path_call,
                   scan_order, stored_cursor, outcome, trace, hist>>

\* The cursor blobs a scan order can come in with.
CursorBlobs ==
    {[shape |-> sh, current_offset |-> 0] : sh \in CursorShapes \ {"offset"}}
    \cup {Cursor(k) : k \in (0..MaxFiles) \cup {NoOffset}}

\* A scan order as handed over by the caller, with any cursor blob.
RestoreInit ==
    /\ total_files \in 0..MaxFiles
    /\ bad_files = {}
    /\ strategy = Strategy0
    /\ cursor_blob \in CursorBlobs
    /\ last_completed \in {"none", "stored"}
    /\ request = NoRequest
    /\ page_walk = NoPageWalk
    /\ path_call = NoPathCall
    /\ scan_order \in [scan_type : {"full", "incremental"}, cursor : {cursor_blob},
                        scanned_from : {"none", "given"}]
    /\ stored_cursor = scan_order.cursor
    /\ outcome = NoOutcome
    /\ trace = NoTrace
    /\ hist = NoHist

\* The first scan() of a new instance on that scan order; hist keeps what
\* the page request was answered with and what the walker did.
RestoreScan ==
    /\ outcome = NoOutcome
    /\ \E inp \in Inputs \cup {[DefaultInput EXCEPT !.lookup_ok = FALSE]}
                  \cup {[DefaultInput EXCEPT !.api = a] : a \in BodilessApis} :
        /\ Invoke(inp)
        /\ hist' = [hist EXCEPT !.clean = FailureFree(inp),
                                !.undisturbed = Undisturbed(inp),
                                !.api = inp.api,
                                !.events =
                                    scan([self |-> strategy,
                                          mem |-> scan_order.cursor,
                                          db |-> stored_cursor],
                                         scan_order.scan_type, inp).walk.events]

Next == Scan \/ ReloadScanOrder \/ NewStrategy

Spec == Init /\ [][Next]_vars

\* Sweeps: every batch runs on an instance of its own and carries the
\* persisted cursor forward.
SweepNext == SweepScan \/ ReloadScanOrder \/ NewStrategy

SweepSpec == Init /\ [][SweepNext]_vars

\* The retry executor on its own: a request whose attempts end as the script
\* says.
Scripts == UNION {[1..n -> AttemptOutcomes] : n \in 1..MaxScriptLen}

\* No scan() has been invoked.
NoScan ==
    /\ cursor_blob = NoCursor
    /\ last_completed = "none"
    /\ strategy = Strategy0
    /\ scan_order = [scan_type |-> "full", cursor |-> NoCursor,
                     scanned_from |-> "given"]
    /\ stored_cursor = NoCursor
    /\ outcome = NoOutcome
    /\ trace = NoTrace
    /\ hist = NoHist

RetryInit ==
    /\ total_files = 0
    /\ bad_files = {}
    /\ request \in [script : Scripts, state : {"ready"}, result : {NoExecution}]
    /\ page_walk = NoPageWalk
    /\ path_call = NoPathCall
    /\ NoScan

\* _execute_with_retry runs the request to its end.
Execute ==
    /\ request.state = "ready"
    /\ request' = [request EXCEPT !.state = "done",
                                  !.result = execute_with_retry(request.script)]
    /\ UNCHANGED <<total_files, bad_files, cursor_blob, last_completed,
                   page_walk, path_call,
                   strategy, scan_order, stored_cursor, outcome, trace, hist>>

RetryNext == Execute

RetrySpec == RetryInit /\ [][RetryNext]_vars

\* _build_folder_path on its own.
PathCollections ==
    {NoPath} \cup {PathCollection(e) :
                     e \in UNION {[1..n -> PathEntries] : n \in 0..MaxPathLen}}

PathInit ==
    /\ total_files = 0
    /\ bad_files = {}
    /\ request = NoRequest
    /\ page_walk = NoPageWalk
    /\ path_call \in [path_collection : PathCollections, state : {"ready"},
                       result : {<<>>}]
    /\ NoScan

BuildPath ==
    /\ path_call.state = "ready"
    /\ path_call' = [path_call EXCEPT
                         !.state = "done",
                         !.result = build_folder_path(path_call.path_collection)]
    /\ UNCHANGED <<total_files, bad_files, cursor_blob, last_completed,
                   request, page_walk,
                   strategy, scan_order, stored_cursor, outcome, trace, hist>>

PathNext == BuildPath

PathSpec == PathInit /\ [][PathNext]_vars

\* Both walkers on their own, on one answered page request.
PageApis ==
    [script : {<<"ok">>}, body : {"json"}, overlong : BOOLEAN,
     no_total : BOOLEAN] \cup BodilessApis

WalkInit ==
    /\ total_files \in 0..MaxFiles
    /\ bad_files \in {b \in SUBSET (1..total_files) :
                        /\ Cardinality(b) <= MaxBadFiles
                        /\ b # {} => total_files <= MaxBadFolder}
    /\ request = NoRequest
    /\ page_walk \in [offset : 0..MaxFiles, api : PageApis, state : {"ready"},
                       full : {returned(NoWalk)},
                       incremental : {returned(NoWalk)}]
    /\ path_call = NoPathCall
    /\ NoScan

\* _scan_folder and _scan_folder_incremental with the same arguments.
WalkPage ==
    /\ page_walk.state = "ready"
    /\ page_walk' = [page_walk EXCEPT
                         !.state = "done",
                         !.full =
                             returned(scan_folder(Strategy0, page_walk.offset,
                                                  MAX_BATCH_SIZE,
                                                  page_walk.api)),
                         !.incremental =
                             returned(scan_folder_incremental(
                                          Strategy0, page_walk.offset,
                                          MAX_BATCH_SIZE, page_walk.api))]
    /\ UNCHANGED <<total_files, bad_files, cursor_blob, last_completed,
                   request, path_call,
                   strategy, scan_order, stored_cursor, outcome, trace, hist>>

WalkNext == WalkPage

WalkSpec == WalkInit /\ [][WalkNext]_vars

\* Restoration: one invocation on each cursor blob.
RestoreNext == RestoreScan

RestoreSpec == RestoreInit /\ [][RestoreNext]_vars

\* An invocation in which nothing fails and every page request is answered,
\* at once or after retries.
Answered(inp) ==
    /\ FailureFree([inp EXCEPT !.api.script = <<"ok">>])
    /\ ~execute_with_retry(inp.api.script).raised

\* A batch of a sweep whose requests are all answered.
LiveScan ==
    /\ strategy = Strategy0
    /\ scan_order.cursor = stored_cursor
    /\ \E inp \in {i \in Inputs : Answered(i)} :
        LET sweep == IF Completed THEN NoHist ELSE hist
        IN  /\ Invoke(inp)
            /\ hist' = [sweep EXCEPT
                           !.emitted = @ + Len(outcome'.result.files),
                           !.delivered = @ \cup Range(outcome'.result.files)]

LiveNext == LiveScan \/ NewStrategy

\* The caller keeps invoking scan(), each time on a new instance.
LiveSpec ==
    Init /\ [][LiveNext]_vars /\ WF_vars(LiveScan) /\ WF_vars(NewStrategy)


\* ------------------------------------------------------------------ claims
Result == outcome.result
Returned == outcome.kind = "result"
Succeeded == Returned /\ Result.error = "None"
Failed == Returned /\ Result.error # "None"
AuthSucceeded == trace.auth \in {"client", "refreshed"}

\* The window of the folder's listing that starts after `offset`.
Window(offset, size) ==
    [i \in 1..Min(size, IF total_files > offset THEN total_files - offset ELSE 0)
        |-> offset + i]

\* C1: in a sweep in which nothing fails, over a folder whose items all
\* normalize, each batch returns the window of at most MAX_BATCH_SIZE files
\* that follows the records returned so far, is_completed is true exactly on
\* the batch that reaches the end of the folder, and the stored offset is the
\* number of records returned so far, 0 after the last batch.
C1_ConsecutiveWindows ==
    (outcome.kind # "none" /\ hist.clean /\ bad_files = {}) =>
        /\ Succeeded
        /\ trace.start_offset + Len(Result.files) = hist.emitted
        /\ Result.files = Window(trace.start_offset, MAX_BATCH_SIZE)
        /\ Result.is_completed
               = (trace.start_offset + MAX_BATCH_SIZE >= total_files)
        /\ stored_cursor
               = Cursor(IF Result.is_completed THEN 0 ELSE hist.emitted)

C1_Witness ==
    /\ hist.clean /\ bad_files = {} /\ Completed
    /\ trace.start_offset >= 2 * MAX_BATCH_SIZE
    /\ Len(Result.files) \in 1..(MAX_BATCH_SIZE - 1)

\* C2: after every invocation the stored offset is the number of records
\* returned to the caller since the sweep began, and 0 once a batch has
\* completed the sweep.
C2_OffsetCountsReturned ==
    outcome.kind # "none" =>
        restore_scan_state(stored_cursor)
            = (IF Completed THEN 0 ELSE hist.emitted)

\* C3: when a batch reports is_completed, every file of the folder whose item
\* normalizes has been returned in some result of the sweep (the endpoint
\* honouring limit and total_count throughout).
C3_AtLeastOnce ==
    (Completed /\ ~hist.anomaly) =>
        (1..total_files) \ bad_files \subseteq hist.delivered

\* C4: an invocation that authenticated and returns an error result without
\* a completed walk leaves the offset it started from in the stored cursor
\* and in the caller's scan order.
C4_ErrorKeepsOffset ==
    (Failed /\ AuthSucceeded /\ ~trace.walked) =>
        /\ stored_cursor = Cursor(trace.start_offset)
        /\ scan_order.cursor = Cursor(trace.start_offset)

C4_Witness ==
    Failed /\ AuthSucceeded /\ ~trace.walked /\ trace.start_offset > 0

\* C5: scan() never raises.
C5_NeverRaises == outcome.kind # "raised"

\* C6 as claimed: is_completed is true if and only if the walk of the batch
\* succeeded and reported has_more = false.
C6_CompletedIffWalkDone ==
    Returned => (Result.is_completed <=> (trace.walked /\ ~trace.has_more))

\* C6: is_completed is true if and only if the batch returned without error
\* and its walk reported has_more = false; every error result has
\* is_completed = false.
C6_CompletedIffBatchDone ==
    Returned =>
        /\ Result.is_completed
              <=> (Result.error = "None" /\ trace.walked /\ ~trace.has_more)
        /\ Failed => ~Result.is_completed

C6_Witness == Failed /\ trace.walked /\ ~trace.has_more /\ ~Result.is_completed

\* C7: after a successful batch that started at offset o and returned n
\* records the stored offset is o + n when has_more is true and 0 otherwise.
C7_CursorAdvance ==
    Succeeded =>
        stored_cursor = Cursor(IF trace.has_more
                               THEN trace.start_offset + Len(Result.files)
                               ELSE 0)

C7_Witness ==
    /\ Succeeded /\ trace.has_more /\ trace.start_offset > 0
    /\ Len(Result.files) > 0 /\ bad_files = {}

\* C8: for a page with entries, the walker reports has_more if and only if
\* offset + records returned < total_count.
C8_HasMoreIffBelowTotal ==
    (trace.walked /\ trace.page_len > 0 /\ trace.total_count # NoTotal) =>
        (trace.has_more
            <=> trace.start_offset + trace.walk_n < trace.total_count)

\* C9: when authentication yields nothing or no client, scan() returns an
\* error result with no files and is_completed = false, and issues no search
\* request.
C9_AuthFailureShortCircuits ==
    trace.auth \in {"none", "no_client"} =>
        /\ Failed
        /\ Result.files = <<>> /\ Result.files_count = 0
        /\ ~Result.is_completed
        /\ trace.requests = 0

C9_Witness == Failed /\ trace.auth = "no_client" /\ trace.requests = 0

\* C10: when authentication returned refreshed credentials, the result
\* carries them.
C10_CredentialsCarried ==
    (Returned /\ trace.auth = "refreshed") => Result.updated_credentials

\* C11: within a sweep whose batches carry the persisted cursor forward, a
\* successful batch with has_more = true persists an offset strictly greater
\* than the one it started from, a failed batch does not lower the offset,
\* and the offset returns to 0 only on the batch that completes the sweep.
C11_OffsetOrdered ==
    outcome.kind # "none" =>
        /\ (Succeeded /\ ~Result.is_completed) =>
               restore_scan_state(stored_cursor) > trace.start_offset
        /\ ~Succeeded =>
               restore_scan_state(stored_cursor) >= trace.start_offset
        /\ (restore_scan_state(stored_cursor) = 0 /\ trace.start_offset > 0) =>
               Completed

\* C12: the offset an invocation leaves in its scan order is the offset the
\* scan order came in with, or the offset this invocation's walk advanced
\* from it; never a value the instance kept from an earlier invocation.
C12_NoLeakBetweenInvocations ==
    outcome.kind # "none" =>
        \/ trace.end_offset = trace.start_offset
        \/ /\ trace.walked
           /\ trace.end_offset = advance(trace.start_offset, trace.walk_n,
                                         trace.has_more)

\* C13: for every cursor blob, an invocation in which nothing else fails
\* returns without error the window that starts at the blob's current_offset
\* when that is a non-negative integer and at 0 otherwise.
C13_RestoreDefaultsToZero ==
    (outcome.kind # "none" /\ hist.clean) =>
        LET blob == cursor_blob
            expected == IF blob.shape = "offset" /\ blob.current_offset >= 0
                        THEN blob.current_offset ELSE 0
        IN  /\ Succeeded
            /\ Result.files = Window(expected, MAX_BATCH_SIZE)

\* C14: in every result, api_calls_made is the number of search calls this
\* invocation counted and api_errors_encountered the number of errors it
\* counted, whatever the instance served before.
C14_CountersPerInvocation ==
    Returned =>
        /\ Result.api_calls_made = trace.calls_counted
        /\ Result.api_errors_encountered = trace.errors_counted

\* C15: a result with is_completed = false (a successful batch with more to
\* come, or an error result) has no scan_completed_at; only a result with
\* is_completed = true carries one.
C15_CompletedAtOnlyWhenCompleted ==
    Returned => (Result.scan_completed_at => Result.is_completed)

\* C16: an incremental scan that issues its request filters by
\* scan_order.scanned_from when it is present; the data source's last
\* completed scan timestamp is consulted only when scanned_from is absent,
\* and when both are absent the filter is 1970-01-01T00:00:00Z.
C16_ReferenceTimestamp ==
    (scan_order.scan_type = "incremental" /\ AuthSucceeded
        /\ ~(truthy(cursor_blob) /\ restore_raises(cursor_blob))) =>
        /\ trace.consulted <=> scan_order.scanned_from = "none"
        /\ trace.requests > 0 =>
              trace.modified_since =
                  (IF scan_order.scanned_from # "none" THEN "scanned_from"
                   ELSE IF last_completed # "none" THEN "last_completed"
                   ELSE "epoch")

C16_Witness ==
    /\ scan_order.scan_type = "incremental" /\ Succeeded
    /\ scan_order.scanned_from = "none" /\ last_completed = "none"
    /\ trace.consulted /\ trace.modified_since = "epoch"
    /\ Len(Result.files) > 0

\* ------------------------------------------------------ the retry executor
Executed == request.state = "done"
\* Attempts 1..k of the request all fail with 429 or 5xx.
TransientUpTo(k) == \A i \in 1..k : At(request.script, i) \in {"s429", "s500"}
Backoff(k) == [i \in 1..k |-> RETRY_DELAY * 2 ^ (i - 1)]

C18_NotFoundOrDeniedFatal ==
    Executed =>
        \A j \in 1..request.result.attempts :
            At(request.script, j) \in {"s404", "s403"} =>
                /\ request.result.raised
                /\ request.result.error = At(request.script, j)
                /\ request.result.attempts = j
                /\ Len(request.result.delays) = j - 1

C18_Witness ==
    /\ Executed
    /\ request.script = <<"s500", "s403", "ok">>
    /\ request.result.raised /\ request.result.attempts = 2

\* C19: a request whose j-th attempt fails with anything but 429/5xx (another
\* status, a provider error without status, an unexpected error) raises
\* that failure on that attempt and makes no further attempt.
C19_OtherFailuresFatal ==
    Executed =>
        \A j \in 1..request.result.attempts :
            At(request.script, j) \notin {"ok", "s429", "s500"} =>
                /\ request.result.raised
                /\ request.result.error = At(request.script, j)
                /\ request.result.attempts = j

\* The records of the page's items that normalize, in page order.
Normalized(page) == SelectSeq(page, LAMBDA f : f \notin bad_files)

\* C20: in a batch in which nothing else fails, when k items of the page
\* fail normalization the batch returns without error the records of all
\* other items of the page in page order, and counts exactly k errors; in
\* full and in incremental mode.
C20_ItemFailuresSwallowed ==
    (outcome.kind # "none" /\ hist.clean) =>
        LET page == Window(trace.start_offset, MAX_BATCH_SIZE)
        IN  /\ Succeeded
            /\ Result.files = Normalized(page)
            /\ trace.errors_counted = Len(page) - Len(Normalized(page))

\* C21: when the page request is answered with no body, no entries field, an
\* empty entries list or entries without total_count, and nothing else
\* fails, the batch returns without error, with no records and has_more
\* false; in full and in incremental mode.
C21_MalformedPageIsEmpty ==
    (/\ outcome.kind # "none" /\ hist.undisturbed
     /\ cursor_blob.shape \in {"absent", "empty", "no_offset", "offset"}
     /\ cursor_blob.current_offset # NoOffset
     /\ \/ hist.api.body # "json"
        \/ trace.start_offset >= total_files
        \/ hist.api.no_total) =>
        /\ Succeeded
        /\ Result.files = <<>>
        /\ ~trace.has_more /\ Result.is_completed

\* ------------------------------------------------------------ the walkers
\* C22: on the same offset, limit and page response, _scan_folder and
\* _scan_folder_incremental return the same records and the same has_more
\* (or both fail), and the offset advanced from them is the same.
C22_WalkersAgree ==
    page_walk.state = "done" =>
        LET f == page_walk.full
            i == page_walk.incremental
        IN  /\ f.raised = i.raised
            /\ f.files = i.files
            /\ f.has_more = i.has_more
            /\ advance(page_walk.offset, Len(f.files), f.has_more)
                   = advance(page_walk.offset, Len(i.files), i.has_more)

\* ------------------------------------------------------- the folder path
\* The names of the entries, in order.
RECURSIVE Names(_)
Names(entries) ==
    IF entries = <<>> THEN <<>>
    ELSE <<Head(entries).name>> \o Names(Tail(entries))

\* "/" followed by the names, "/" between them.
RECURSIVE Slashed(_)
Slashed(names) ==
    IF names = <<>> THEN <<>>
    ELSE <<"/", Head(names)>> \o Slashed(Tail(names))

\* C25: for a path collection whose entries all have names, the path is "/"
\* followed by the names joined with "/", in order, where a first entry
\* {id "0", name "All Files"} is left out and no other entry is; a missing
\* or empty path collection gives "/".
C25_FolderPath ==
    (/\ path_call.state = "done"
     /\ \A i \in DOMAIN path_call.path_collection.entries :
            path_call.path_collection.entries[i].name # "") =>
        LET entries == path_call.path_collection.entries
            kept == IF entries # <<>> /\ Head(entries) = Root
                    THEN Tail(entries) ELSE entries
        IN  path_call.result
                = (IF kept = <<>> THEN <<"/">> ELSE Slashed(Names(kept)))

\* ------------------------------------------------------ the page request
\* The search requests among the walker's steps.
Requests == SelectSeq(hist.events, LAMBDA e : e.op = "GET search")

\* C23: an invocation issues at most one page request, of at most
\* MAX_RETRIES + 1 attempts, with limit MAX_BATCH_SIZE and the offset restored
\* from the cursor; the rate-limit delay precedes it, and no second page is
\* requested when has_more is true.
C23_OnePageRequest ==
    outcome.kind # "none" =>
        /\ Len(Requests) <= 1
        /\ Len(Requests) = trace.requests
        /\ \A i \in DOMAIN hist.events :
               hist.events[i].op = "GET search" =>
                   /\ hist.events[i].limit = MAX_BATCH_SIZE
                   /\ hist.events[i].offset = trace.start_offset
                   /\ hist.events[i].attempts \in 1..(MAX_RETRIES + 1)
                   /\ i > 1
                   /\ hist.events[i - 1].op = "sleep"
                   /\ \A j \in 1..(i - 1) : hist.events[j].op = "sleep"

\* A retried request at a later offset whose batch reports more.
C23_Witness ==
    /\ outcome.kind = "result"
    /\ trace.has_more
    /\ trace.start_offset > 0
    /\ Len(Requests) = 1
    /\ Requests[1].attempts > 1

\* ------------------------------------------------------ the size of a batch
\* C24: every result holds at most MAX_BATCH_SIZE files and files_count is
\* their number; when the page held more entries than the limit, a batch that
\* succeeds reports has_more and leaves the offset MAX_BATCH_SIZE further, so
\* that the entries beyond the limit come with the next batch.
C24_BatchBounded ==
    /\ Returned =>
           /\ Len(Result.files) <= MAX_BATCH_SIZE
           /\ Result.files_count = Len(Result.files)
    /\ (Succeeded /\ trace.walked /\ trace.page_len > MAX_BATCH_SIZE) =>
           /\ trace.has_more
           /\ ~Result.is_completed
           /\ trace.end_offset = trace.start_offset + MAX_BATCH_SIZE

\* ------------------------------------------------------------- termination
\* C26: when every page request is answered and nothing else fails, the
\* repeated invocations of a sweep eventually return a batch with
\* is_completed = true, whatever items fail normalization.
C26_SweepTerminates == <>Completed

\* ------------------------------------------------- the two copies of a cursor
\* C27: after every invocation the offset of the cursor in the caller's scan
\* order is the offset of the cursor in durable storage, also when
\* update_scan_metadata fails.
C27_MemoryMatchesStorage ==
    outcome.kind # "none" =>
        /\ restore_scan_state(scan_order.cursor)
               = restore_scan_state(stored_cursor)
        /\ trace.end_offset = restore_scan_state(stored_cursor)

====
